---- MODULE Spec2Model ----
(***************************************************************************)
(* Stacked-RBM pre-training of libdnn (src/src/rbm.cu): the stack          *)
(* orchestrator initStackedRBM, the single-RBM trainer rbmTrain with its   *)
(* slope-ratio stopping rule, the slope estimator getSlope, and the        *)
(* sampling kernel that sample() dispatches over a grid of tiles.          *)
(*                                                                         *)
(* Numbers.  A float is a rational <<num, den>> with den > 0 wherever the  *)
(* code divides (slopes, thresholds); matrix entries are fixed-point       *)
(* integers in units of 1/One, so that One stands for 1.0f.  The dense     *)
(* matrix library is outside the file: a matrix is its shape, a data set   *)
(* is its shape with the extreme values ext::min / ext::max read from it.  *)
(***************************************************************************)
EXTENDS Integers, Sequences, FiniteSets, TLC

VARIABLES
  \* ---- initStackedRBM (the stack orchestrator)
  spc,            \* position: none | entry | loop | inTrain | returned | aborted
  dims,           \* the layer-dimension list
  firstLayerType, \* the caller's `type` argument
  stype,          \* the parameter `type`, overwritten in the loop
  slopeThres,     \* the caller's threshold
  li,             \* loop index i
  weights,        \* std::vector<mat> weights, each a shape <<rows, cols>>
  X,              \* hmat X: [rows, cols, min, max]
  firstEpochs,    \* history: epochs executed by layer 0 (-1 before it returns)
  \* ---- rbmTrain (one call frame)
  tpc,            \* position: idle | entry | loop | done | returned | aborted
  tdata,          \* argument data: [rows, cols, min, max]
  nHiddenUnits,   \* argument
  threshold,      \* argument, a rational <<num, den>>
  ttype,          \* argument type
  lrDivisor,      \* what learning_rate has been divided by
  W,              \* <<>> before construction, then <<rows, cols>>
  updates,        \* number of executions of W += dW
  errors,         \* std::vector<float> errors
  epoch,          \* loop variable epoch
  initialSlope,   \* float initialSlope, a rational
  h1,             \* h1 of the last mini-batch, after sample(h1, type)
  executed,       \* history: epoch bodies run to their end
  reported,       \* the "# of epoch" printed on return (-1: nothing printed)
  \* ---- the training environment (reconstruction errors are data-dependent)
  nFree,          \* epochs whose error is unconstrained
  tail,           \* afterwards the error repeats with this period
  \* ---- getSlope as a function under test
  qpc, qseq, qN, qfit,
  \* ---- sample(): two dispatches over the same input, each with a fresh pool
  kpc,            \* position per run: idle | kernel | done
  kRows, kCols, kType, kSeed,
  kData,          \* per run: the device buffer, column-major
  kPool,          \* per run: slot -> number of draws taken from that generator
  wpc,            \* per run, per cell: ready | loaded | done
  wloc            \* per run, per cell: the generator state the worker loaded

stackVars  == <<spc, dims, firstLayerType, stype, slopeThres, li, weights, X, firstEpochs>>
trainVars  == <<tpc, tdata, nHiddenUnits, threshold, ttype, lrDivisor, W, updates,
                errors, epoch, initialSlope, h1, executed, reported>>
envVars    == <<nFree, tail>>
slopeVars  == <<qpc, qseq, qN, qfit>>
sampleVars == <<kpc, kRows, kCols, kType, kSeed, kData, kPool, wpc, wloc>>
vars == <<stackVars, trainVars, envVars, slopeVars, sampleVars>>

GAUSSIAN_BERNOULLI  == "GAUSSIAN_BERNOULLI"
BERNOULLI_BERNOULLI == "BERNOULLI_BERNOULLI"
RBM_TYPE == {GAUSSIAN_BERNOULLI, BERNOULLI_BERNOULLI}

----------------------------------------------------------------------------
(* Program constants *)
minEpoch    == 5
maxEpoch_129 == 128 + 1
maxEpoch    == 128
slopeWindow == 5        \* the literal N of getSlope(errors, 5)
batchSize   == 1024
lrScale     == 100      \* learning_rate /= 100

(* Bounds of the model *)
One         == 2        \* fixed-point unit: the integer One is 1.0f
FreeEpochs  == 7        \* rbmTrain alone: epochs with an unconstrained error
MaxBatches  == 2        \* mini-batches per epoch
MaxLayers   == 2        \* layers of a stack (dims has up to MaxLayers + 1 entries)
SlopeLen    == 5        \* length of the series handed to getSlope
TileN       == 2        \* tile edge (N = 32 in sample(), scaled down)
MaxRows     == 3        \* rows of a sampled matrix
MaxCols     == 2        \* columns of a sampled matrix
MaxSeed     == 1        \* seeds of the random-state pool

ErrVals     == {0, 1}                          \* per-epoch errors sqrt(error)/nData
TailPeriods == {1, 4}                          \* flat, or repeating with period 4
Thresholds  == {<<0, 1>>, <<1, 10>>, <<2, 1>>} \* 0, 0.1, 2.0
StackTails  == {4}                             \* stacks: errors of period 4
StackThresholds == {<<2, 1>>}                  \* stacks: threshold 2.0
SeqVals     == {2, 4, 6, 8, 10}
DataRanges  == {<<0, One>>, <<0, One + 1>>}   \* <<min, max>> of data: [0, 1] and [0, 1.5]

(* size_t arithmetic wraps; 64 bits in the build, narrowed here so that the *)
(* wrapped value stays inside the model checker's integers.                *)
SizeTModulus  == 2^30
VectorMaxSize == SizeTModulus \div 64   \* std::vector<mat>::max_size()

----------------------------------------------------------------------------
(* Arithmetic *)
Abs(a) == IF a < 0 THEN -a ELSE a

RECURSIVE SumTo(_, _)
SumTo(f, n) == IF n = 0 THEN 0 ELSE f[n] + SumTo(f, n - 1)

(* Ordinary least squares of y against x: m = (nD - AB) / (nC - A^2),      *)
(* c = (B - mA) / n, both as rationals.                                    *)
linearRegression(x, y) ==
  LET n == Len(x)
      A == SumTo(x, n)
      B == SumTo(y, n)
      C == SumTo([k \in 1..n |-> x[k] * x[k]], n)
      D == SumTo([k \in 1..n |-> x[k] * y[k]], n)
      mnum == n * D - A * B
      mden == n * C - A * A
  IN [mnum |-> mnum, mden |-> mden,
      cnum |-> B * mden - mnum * A, cden |-> n * mden]

(* x[i] = N - 1 - i for i = 0 .. N-1: the most recent point has x = 0 *)
xAxis_ascending(N) == [k \in 1..N |-> k - 1]
xAxis(N) == [k \in 1..N |-> N - k]

(* y: the last N entries of seq, oldest first *)
lastN(seq, N) == [k \in 1..N |-> seq[Len(seq) - N + k]]

getSlopeFit(seq, N) == linearRegression(xAxis(N), lastN(seq, N))

getSlope(seq, N) == LET r == getSlopeFit(seq, N) IN <<r.mnum, r.mden>>

(* ratio < threshold for ratio = abs(cur / init), abs being the float      *)
(* overload, in IEEE arithmetic: with init = 0 the ratio is +inf or NaN    *)
(* and the comparison is false.                                            *)
RatioBelow(cur, init, thr) ==
  /\ init[1] # 0
  /\ Abs(cur[1] * init[2]) * thr[2] < thr[1] * Abs(cur[2] * init[1])

----------------------------------------------------------------------------
(* The sampling operations and the propagation primitives *)
fillLastColumnWith(row, v) == [row EXCEPT ![Len(row)] = v]

fill_bias(row) == fillLastColumnWith(row, One)

(* x += curand_normal(state) *)
gaussian(x, n) == x + n

(* x = (float) (x >= curand_uniform(state)) *)
bernoulli(x, u) == IF x >= u THEN One ELSE 0

Op(type, x, d) == IF type = GAUSSIAN_BERNOULLI THEN gaussian(x, d) ELSE bernoulli(x, d)

UniformVals == 1..One              \* curand_uniform: (0, 1]
NormalVals  == {-1, 1}             \* curand_normal, two values
DrawVals(type) == IF type = GAUSSIAN_BERNOULLI THEN NormalVals ELSE UniformVals

(* one hidden unit of up_propagate before the bias column is filled:       *)
(* sigmoid(visible * W) for Bernoulli, visible * W for Gaussian            *)
HiddenVals(type) == IF type = BERNOULLI_BERNOULLI THEN 0..One ELSE {0, One}

----------------------------------------------------------------------------
(* rbmTrain *)

NoSlope == <<0, 1>>                 \* float initialSlope = 0

(* Batches(batchSize, nData): contiguous windows, the last may be shorter *)
NumBatches(bs, nData) == (nData + bs - 1) \div bs

(* assert(ext::max(data) <= 1 && ext::min(data) >= 0) *)
VisibleRangeOK_minOnly(data) == data.min >= 0
VisibleRangeOK(data) == data.max <= One /\ data.min >= 0

(* mat W(input_dim, nHiddenUnits + 1) with input_dim = data.getRows() *)
WShape_noBias(data, nHidden) == <<data.rows, nHidden>>
WShape(data, nHidden) == <<data.rows, nHidden + 1>>

(* The reconstruction error of the epoch that ends now, as the data and    *)
(* the weights produce it: free for the first nFree epochs, periodic after *)
NextErrors(errs) ==
  IF Len(errs) < nFree \/ Len(errs) < tail THEN ErrVals
  ELSE {errs[Len(errs) + 1 - tail]}

(* the switch on type: the range assertion, or the learning-rate scaling; *)
(* then the construction of W and of the loop's variables                  *)
rbmTrainEnter ==
  /\ tpc = "entry"
  /\ IF ttype = BERNOULLI_BERNOULLI /\ ~VisibleRangeOK(tdata)
       THEN /\ tpc' = "aborted"
            /\ UNCHANGED <<lrDivisor, W, epoch>>
       ELSE /\ lrDivisor' = IF ttype = GAUSSIAN_BERNOULLI THEN lrScale ELSE 1
            /\ W' = WShape(tdata, nHiddenUnits)
            /\ epoch' = 0
            /\ tpc' = IF 0 < maxEpoch THEN "loop" ELSE "done"
  /\ errors' = << >>
  /\ initialSlope' = NoSlope
  /\ UNCHANGED <<tdata, nHiddenUnits, threshold, ttype, updates, h1, executed, reported>>
  /\ UNCHANGED <<stackVars, envVars, slopeVars, sampleVars>>

(* sample(h1, type) as the host sees it: the kernel applied to every entry *)
(* of the row, then fill_bias                                              *)
sampleRow(row, type, draws) ==
  fill_bias([k \in 1..Len(row) |-> Op(type, row[k], draws[k])])

(* h1 of a mini-batch: up_propagate(W, v1, h1, type), then sample(h1, type) *)
SampledH1(type) ==
  {sampleRow(fill_bias(<<pre, 0>>), type, <<d1, d2>>) :
     pre \in HiddenVals(type), d1 \in DrawVals(type), d2 \in DrawVals(type)}

(* if (ratio < threshold) break, tested only when epoch > minEpoch *)
StopNow_fromMinEpoch(ep, errs, init, thr) ==
  /\ ep >= minEpoch
  /\ RatioBelow(getSlope(errs, slopeWindow), init, thr)
StopNow(ep, errs, init, thr) ==
  /\ ep > minEpoch
  /\ RatioBelow(getSlope(errs, slopeWindow), init, thr)

(* one epoch of the loop.  Every mini-batch: up_propagate, positive,      *)
(* sample(h1, type), down- and up-propagate, negative, W += dW and         *)
(* error += ...; h1 is the sampled h1 of the last mini-batch.  Then        *)
(* errors.push_back, the initial slope at epoch == minEpoch, the           *)
(* slope-ratio test, ++epoch and the loop test.                            *)
rbmTrainEpoch ==
  /\ tpc = "loop"
  /\ \E e \in NextErrors(errors) :
       LET errs == Append(errors, e)
           init == IF epoch = minEpoch THEN getSlope(errs, minEpoch) ELSE initialSlope
           stop == StopNow(epoch, errs, init, threshold)
       IN /\ errors' = errs
          /\ initialSlope' = init
          /\ epoch' = IF stop THEN epoch ELSE epoch + 1
          /\ tpc' = IF stop \/ ~(epoch + 1 < maxEpoch) THEN "done" ELSE "loop"
  /\ h1' \in SampledH1(ttype)
  /\ updates' = updates + NumBatches(batchSize, tdata.cols)
  /\ executed' = executed + 1
  /\ UNCHANGED <<tdata, nHiddenUnits, threshold, ttype, lrDivisor, W, reported>>
  /\ UNCHANGED <<stackVars, envVars, slopeVars, sampleVars>>

(* printf("# of epoch = %lu, ...", epoch, t_end / epoch); return W *)
ReportedEpochs(ep, errs) == ep

rbmTrainReturn ==
  /\ tpc = "done"
  /\ reported' = ReportedEpochs(epoch, errors)
  /\ tpc' = "returned"
  /\ UNCHANGED <<tdata, nHiddenUnits, threshold, ttype, lrDivisor, W, updates, errors,
                 epoch, initialSlope, h1, executed>>
  /\ UNCHANGED <<stackVars, envVars, slopeVars, sampleVars>>

----------------------------------------------------------------------------
(* Idle values of the parts a specification does not exercise *)
NoData == [rows |-> 0, cols |-> 0, min |-> 0, max |-> 0]

StackIdle ==
  /\ spc = "none" /\ dims = << >> /\ firstLayerType = BERNOULLI_BERNOULLI
  /\ stype = BERNOULLI_BERNOULLI /\ slopeThres = <<0, 1>> /\ li = 0
  /\ weights = << >> /\ X = NoData /\ firstEpochs = -1

TrainFrame ==
  /\ lrDivisor = 1 /\ W = << >> /\ updates = 0 /\ errors = << >> /\ epoch = 0
  /\ initialSlope = NoSlope /\ h1 = << >> /\ executed = 0
  /\ reported = -1

SlopeIdle == qpc = "none" /\ qseq = << >> /\ qN = 0 /\ qfit = << >>

SampleIdle ==
  /\ kpc = << >> /\ kRows = 0 /\ kCols = 0 /\ kType = BERNOULLI_BERNOULLI
  /\ kSeed = 0 /\ kData = << >> /\ kPool = << >> /\ wpc = << >> /\ wloc = << >>

(* nData giving MaxBatches mini-batches, the last one of a single column *)
NDataVals == {(MaxBatches - 1) * batchSize + 1}

(* rbmTrain called on its own *)
InitTrain ==
  /\ StackIdle /\ SlopeIdle /\ SampleIdle /\ TrainFrame
  /\ tpc = "entry"
  /\ \E r \in DataRanges, n \in NDataVals :
        tdata = [rows |-> 3, cols |-> n, min |-> r[1], max |-> r[2]]
  /\ nHiddenUnits = 2
  /\ threshold \in Thresholds
  /\ ttype \in RBM_TYPE
  /\ nFree = FreeEpochs
  /\ tail \in TailPeriods

NextTrain == rbmTrainEnter \/ rbmTrainEpoch \/ rbmTrainReturn

Spec == InitTrain /\ [][NextTrain]_vars

----------------------------------------------------------------------------
(* initStackedRBM *)

(* hmat Y(w.getCols(), nData), filled with sigmoid(fin * w) and the bias   *)
(* column, transposed: every entry lies in [0, 1] and the bias row is 1    *)
batchFeedForwarding(x, w) ==
  [rows |-> w[2], cols |-> x.cols, min |-> 0, max |-> One]

(* std::vector<mat> weights(dims.size() - 1) in size_t arithmetic; a count *)
(* above max_size() makes the constructor throw std::length_error, which   *)
(* nothing catches                                                         *)
WeightCount(d) == (Len(d) - 1) % SizeTModulus

initStackedRBMEnter ==
  /\ spc = "entry"
  /\ IF WeightCount(dims) > VectorMaxSize
       THEN /\ spc' = "aborted"
            /\ UNCHANGED weights
       ELSE /\ weights' = [k \in 1..WeightCount(dims) |-> <<0, 0>>]
            /\ spc' = "loop"
  /\ li' = 0
  /\ UNCHANGED <<dims, firstLayerType, stype, slopeThres, X, firstEpochs>>
  /\ UNCHANGED <<trainVars, envVars, slopeVars, sampleVars>>

(* if (type == GAUSSIAN_BERNOULLI && i > 0) type = BERNOULLI_BERNOULLI *)
LayerType_keep(type, i) == type
LayerType(type, i) ==
  IF type = GAUSSIAN_BERNOULLI /\ i > 0 THEN BERNOULLI_BERNOULLI ELSE type

(* the loop body up to the call rbmTrain(X, dims[i + 1], slopeThres, type, *)
(* learning_rate): a fresh frame of rbmTrain                               *)
initStackedRBMCall ==
  /\ spc = "loop"
  /\ li < Len(weights)
  /\ stype' = LayerType(stype, li)
  /\ spc' = "inTrain"
  /\ tpc' = "entry"
  /\ tdata' = X
  /\ nHiddenUnits' = dims[li + 2]
  /\ threshold' = slopeThres
  /\ ttype' = LayerType(stype, li)
  /\ lrDivisor' = 1 /\ W' = << >> /\ errors' = << >> /\ epoch' = 0
  /\ initialSlope' = NoSlope /\ h1' = << >> /\ executed' = 0
  /\ reported' = -1 /\ updates' = 0
  /\ UNCHANGED <<dims, firstLayerType, slopeThres, li, weights, X, firstEpochs>>
  /\ UNCHANGED <<envVars, slopeVars, sampleVars>>

(* weights[i] = <the returned W>; X = batchFeedForwarding(X, weights[i]); ++i *)
initStackedRBMNext ==
  /\ spc = "inTrain"
  /\ tpc = "returned"
  /\ weights' = [weights EXCEPT ![li + 1] = W]
  /\ X' = batchFeedForwarding(X, W)
  /\ firstEpochs' = IF li = 0 THEN executed ELSE firstEpochs
  /\ li' = li + 1
  /\ spc' = "loop"
  /\ tpc' = "idle"
  /\ UNCHANGED <<dims, firstLayerType, stype, slopeThres>>
  /\ UNCHANGED <<tdata, nHiddenUnits, threshold, ttype, lrDivisor, W, updates, errors,
                 epoch, initialSlope, h1, executed, reported>>
  /\ UNCHANGED <<envVars, slopeVars, sampleVars>>

initStackedRBMReturn ==
  /\ spc = "loop"
  /\ li >= Len(weights)
  /\ spc' = "returned"
  /\ UNCHANGED <<dims, firstLayerType, stype, slopeThres, li, weights, X, firstEpochs>>
  /\ UNCHANGED <<trainVars, envVars, slopeVars, sampleVars>>

DimVals == {1, 2}                    \* layer dimensions

(* every layer-dimension list of 0 .. MaxLayers + 1 entries *)
DimLists == UNION {[1..n -> DimVals] : n \in 0..(MaxLayers + 1)}

(* initStackedRBM called on a data set whose feature matrix carries the    *)
(* bias row: dims[0] + 1 rows when dims names the input dimension          *)
InitStack ==
  /\ SlopeIdle /\ SampleIdle /\ TrainFrame
  /\ spc = "entry"
  /\ dims \in DimLists
  /\ firstLayerType \in RBM_TYPE
  /\ stype = firstLayerType
  /\ slopeThres \in StackThresholds
  /\ li = 0
  /\ weights = << >>
  /\ firstEpochs = -1
  /\ \E r \in DataRanges :
        X = [rows |-> (IF Len(dims) > 0 THEN dims[1] ELSE 1) + 1,
             cols |-> (MaxBatches - 1) * batchSize + 1,
             min |-> r[1], max |-> r[2]]
  /\ tpc = "idle"
  /\ tdata = NoData /\ nHiddenUnits = 0 /\ threshold = <<0, 1>>
  /\ ttype = BERNOULLI_BERNOULLI
  /\ tail \in StackTails
  /\ nFree = tail

NextStack ==
  \/ initStackedRBMEnter \/ initStackedRBMCall \/ initStackedRBMNext
  \/ initStackedRBMReturn
  \/ rbmTrainEnter \/ rbmTrainEpoch \/ rbmTrainReturn

SpecStack == InitStack /\ [][NextStack]_vars

----------------------------------------------------------------------------
(* getSlope applied to a series *)

getSlopeCall ==
  /\ qpc = "call"
  /\ LET r == getSlopeFit(qseq, qN)
     IN qfit' = <<r.mnum, r.mden, r.cnum, r.cden>>
  /\ qpc' = "done"
  /\ UNCHANGED <<qseq, qN>>
  /\ UNCHANGED <<stackVars, trainVars, envVars, sampleVars>>

TrainIdle ==
  /\ TrainFrame /\ tpc = "idle" /\ tdata = NoData /\ nHiddenUnits = 0
  /\ threshold = <<0, 1>> /\ ttype = BERNOULLI_BERNOULLI
  /\ nFree = 0 /\ tail = 1

InitSlope ==
  /\ StackIdle /\ TrainIdle /\ SampleIdle
  /\ qpc = "call"
  /\ qseq \in UNION {[1..n -> SeqVals] : n \in 2..SlopeLen}
  /\ qN \in 2..Len(qseq)
  /\ qfit = << >>

NextSlope == getSlopeCall

SpecSlope == InitSlope /\ [][NextSlope]_vars

----------------------------------------------------------------------------
(* sample(prob, type): the kernel over a grid of TileN x TileN tiles.      *)
(* A worker is the thread of one matrix cell (x, y), x < cols, y < rows;   *)
(* the threads outside the matrix return at once.  curand_uniform and      *)
(* curand_normal read the generator state at globalState + j, and write    *)
(* the advanced state back: two steps, with no synchronisation between     *)
(* the tiles.                                                              *)
Runs == {1, 2}

CeilDiv(a, b) == (a + b - 1) \div b
GridX == CeilDiv(kCols, TileN)       \* grid.x = ceil(cols / N)
GridY == CeilDiv(kRows, TileN)       \* grid.y = ceil(rows / N)

Cells == {c \in (0..(GridX * TileN - 1)) \X (0..(GridY * TileN - 1)) :
            c[1] < kCols /\ c[2] < kRows}

DataIndex(c) == c[1] * kRows + c[2] + 1              \* i = x * rows + y
Slot(c) == (c[1] % TileN) * TileN + (c[2] % TileN)   \* j = tx * blockDim.y + ty

(* the pos-th draw of the generator curand_init(seed, slot, 0, ...) *)
Generate(type, seed, slot, pos) ==
  IF type = GAUSSIAN_BERNOULLI
    THEN ((seed + slot + pos) % 3) - 1
    ELSE ((seed + slot + pos) % One) + 1

(* the static CURAND_STATE of a process and the launch of the kernel; the  *)
(* second run is a second process, started when the first has finished     *)
sampleLaunch(r) ==
  /\ kpc[r] = "idle"
  /\ r = 1 \/ kpc[1] = "done"
  /\ kpc' = [kpc EXCEPT ![r] = "kernel"]
  /\ UNCHANGED <<kRows, kCols, kType, kSeed, kData, kPool, wpc, wloc>>
  /\ UNCHANGED <<stackVars, trainVars, envVars, slopeVars>>

workerLoad(r, c) ==
  /\ kpc[r] = "kernel"
  /\ wpc[r][c] = "ready"
  /\ wloc' = [wloc EXCEPT ![r][c] = kPool[r][Slot(c)]]
  /\ wpc' = [wpc EXCEPT ![r][c] = "loaded"]
  /\ UNCHANGED <<kpc, kRows, kCols, kType, kSeed, kData, kPool>>
  /\ UNCHANGED <<stackVars, trainVars, envVars, slopeVars>>

workerStore(r, c) ==
  /\ kpc[r] = "kernel"
  /\ wpc[r][c] = "loaded"
  /\ kData' = [kData EXCEPT ![r][DataIndex(c)] =
                  Op(kType, @, Generate(kType, kSeed, Slot(c), wloc[r][c]))]
  /\ kPool' = [kPool EXCEPT ![r][Slot(c)] = wloc[r][c] + 1]
  /\ wpc' = [wpc EXCEPT ![r][c] = "done"]
  /\ UNCHANGED <<kpc, kRows, kCols, kType, kSeed, wloc>>
  /\ UNCHANGED <<stackVars, trainVars, envVars, slopeVars>>

(* cudaDeviceSynchronize(); fill_bias(prob): the last column becomes 1.0 *)
sampleFinish(r) ==
  /\ kpc[r] = "kernel"
  /\ \A c \in Cells : wpc[r][c] = "done"
  /\ kData' = [kData EXCEPT ![r] =
                  [i \in DOMAIN kData[r] |->
                     IF i > (kCols - 1) * kRows THEN One ELSE kData[r][i]]]
  /\ kpc' = [kpc EXCEPT ![r] = "done"]
  /\ UNCHANGED <<kRows, kCols, kType, kSeed, kPool, wpc, wloc>>
  /\ UNCHANGED <<stackVars, trainVars, envVars, slopeVars>>

InitSample ==
  /\ StackIdle /\ TrainIdle /\ SlopeIdle
  /\ kRows \in 1..MaxRows
  /\ kCols \in 1..MaxCols
  /\ kType \in RBM_TYPE
  /\ kSeed \in 0..MaxSeed
  /\ kpc = [r \in Runs |-> "idle"]
  /\ \E p \in 0..One : kData = [r \in Runs |-> [i \in 1..(kRows * kCols) |-> p]]
  /\ kPool = [r \in Runs |-> [j \in 0..(TileN * TileN - 1) |-> 0]]
  /\ wpc = [r \in Runs |-> [c \in Cells |-> "ready"]]
  /\ wloc = [r \in Runs |-> [c \in Cells |-> 0]]

NextSample ==
  \/ \E r \in Runs : sampleLaunch(r)
  \/ \E r \in Runs : \E c \in Cells : workerLoad(r, c)
  \/ \E r \in Runs : \E c \in Cells : workerStore(r, c)
  \/ \E r \in Runs : sampleFinish(r)

SpecSample == InitSample /\ [][NextSample]_vars

----------------------------------------------------------------------------
(* Properties *)

TrainOver == tpc \in {"done", "returned"}

(* C1: in every run of rbmTrain the error trajectory has one entry per     *)
(* epoch executed, an entry once appended is never rewritten, and when     *)
(* the loop is over between 5 and 128 epochs have been executed.           *)
C1_EpochBounds ==
  /\ Len(errors) = executed
  /\ TrainOver => (executed >= 5 /\ executed <= 128)

C1_AppendOnly ==
  \/ errors' = errors
  \/ \E e \in ErrVals : errors' = Append(errors, e)

(* C1: the bounds on the number of epochs hold in every state, and every   *)
(* step leaves the error trajectory alone or appends one entry to it.      *)
C1_EpochCount == [](C1_EpochBounds) /\ [][C1_AppendOnly]_vars

C1_Witness == tpc = "returned" /\ executed = 128 /\ threshold[1] > 0

(* the errors of the epochs after epoch 5 (epochs count from 0) are equal *)
FlatAfter5 == \A k \in 8..Len(errors) : errors[k] = errors[7]

(* C2 as stated: whenever the trajectory is flat after epoch 5 and the     *)
(* threshold is positive, training stops at epoch 6.                       *)
C2_StopsAtEpoch6 ==
  (TrainOver /\ FlatAfter5 /\ threshold[1] > 0) => epoch = 6

(* C2 amended: whenever the trajectory is flat after epoch 5, the          *)
(* threshold is positive and the initial slope is not zero, training       *)
(* stops at one of the epochs 6 .. 10: at the latest when the window of    *)
(* five errors lies in the flat part, and not at epoch 128.                *)
C2_StopsWithinWindow ==
  (TrainOver /\ FlatAfter5 /\ threshold[1] > 0 /\ initialSlope[1] # 0)
     => (epoch >= 6 /\ epoch <= 10 /\ Len(errors) = epoch + 1)

C2_Witness ==
  /\ tpc = "returned" /\ FlatAfter5 /\ threshold[1] > 0 /\ initialSlope[1] # 0
  /\ epoch > 6 /\ Len(errors) > 8

(* C5: with type BERNOULLI_BERNOULLI and data outside [0, 1] rbmTrain      *)
(* aborts before W exists, so W is never updated and nothing is returned;  *)
(* with type GAUSSIAN_BERNOULLI rbmTrain never aborts on its data.         *)
OutOfRange == tdata.max > One \/ tdata.min < 0

C5_RangeAssert ==
  /\ (ttype = BERNOULLI_BERNOULLI /\ OutOfRange)
        => (tpc \in {"entry", "aborted"} /\ W = << >> /\ updates = 0)
  /\ ttype = GAUSSIAN_BERNOULLI => tpc # "aborted"

C5_Witness ==
  tpc = "aborted" /\ ttype = BERNOULLI_BERNOULLI /\ tdata.max > One /\ updates = 0

(* C9 as stated: after sample(h1, type) every entry of h1 is 0.0 or 1.0,   *)
(* for both RBM types.                                                     *)
C9_HiddenBinarized == \A k \in 1..Len(h1) : h1[k] \in {0, One}

(* C10 as stated: the number of epochs rbmTrain reports on return is the   *)
(* number of epochs executed, the length of the error trajectory.          *)
C10_ReportedIsExecuted == tpc = "returned" => reported = Len(errors)

(* C4: initStackedRBM returns one matrix per layer, in layer order, and    *)
(* matrix i has shape (dims[i] + 1) x (dims[i+1] + 1), whatever the number *)
(* of epochs of each layer.                                                *)
C4_StackShapes ==
  (spc = "returned" /\ Len(dims) >= 2) =>
     /\ Len(weights) = Len(dims) - 1
     /\ \A i \in 1..Len(weights) : weights[i] = <<dims[i] + 1, dims[i + 1] + 1>>

C4_Witness ==
  /\ spc = "returned" /\ Len(weights) = 2 /\ firstEpochs # executed
  /\ dims[1] # dims[2] /\ dims[2] # dims[3]

(* C6 as stated: with a layer-dimension list of fewer than 2 entries       *)
(* initStackedRBM never returns.                                           *)
C6_ShortListNeverReturns == Len(dims) < 2 => spc # "returned"

(* C8: every call of rbmTrain made by initStackedRBM passes the caller's   *)
(* type for layer 0 and BERNOULLI_BERNOULLI for every later layer.         *)
C8_LayerTypes ==
  (spc = "inTrain" /\ tpc # "idle") =>
     ttype = (IF li = 0 THEN firstLayerType ELSE BERNOULLI_BERNOULLI)

C8_Witness ==
  /\ spc = "inTrain" /\ tpc = "loop" /\ li > 0
  /\ firstLayerType = GAUSSIAN_BERNOULLI /\ ttype = BERNOULLI_BERNOULLI

Descent == <<10, 8, 6, 4, 2>>

FitOfDescent == qpc = "done" /\ qN = 5 /\ Len(qseq) >= 5 /\ lastN(qseq, 5) = Descent

(* C3 as stated: the fit of [10, 8, 6, 4, 2] with window 5 has slope -2.0  *)
(* and intercept 2.0.                                                      *)
C3_SlopeMinusTwo ==
  FitOfDescent => (qfit[1] = (-2) * qfit[2] /\ qfit[3] = 2 * qfit[4])

(* C3 amended: the fit of [10, 8, 6, 4, 2] with window 5 has slope +2.0    *)
(* and intercept 2.0: x decreases with recency, so a falling error has a   *)
(* positive slope.                                                         *)
C3_SlopePlusTwo ==
  FitOfDescent => (qfit[1] = 2 * qfit[2] /\ qfit[3] = 2 * qfit[4])

C3_Witness == FitOfDescent /\ qfit[2] > 0 /\ qfit[4] > 0

(* C7 as stated: two runs of sample on the same input, type and seed give  *)
(* the same matrix, under every interleaving of the workers.               *)
C7_SampleDeterministic ==
  (kpc # << >> /\ kpc[1] = "done" /\ kpc[2] = "done") => kData[1] = kData[2]

====
